---------------------------- MODULE Spec2Model ----------------------------
(***************************************************************************)
(* A model of latex.py: the OCR-to-LaTeX pipeline of Transgrade_Latex.     *)
(*                                                                         *)
(* Text is a sequence of one-character strings, so that the regular        *)
(* expressions of sanitize_latex and the counts of validate_latex_syntax   *)
(* are computed character by character.  "deg" stands for the one          *)
(* character U+00B0 (the degree sign) and "bq" for the backquote, which a  *)
(* TLA+ string cannot hold.                                                *)
(***************************************************************************)
EXTENDS Integers, Sequences, FiniteSets, TLC

(***************************************************************************)
(* Bounds of the model.                                                    *)
(***************************************************************************)
\* the longest input of the text functions, in pieces of InputPieces
MaxPieces == 3

\* the most pages the image service holds for a script
MaxPages == 3

(***************************************************************************)
(* Character classes and string helpers (Python str and re primitives).    *)
(***************************************************************************)
\* the characters \s matches and str.strip() strips, among those texts use
IsSpace(c) == c \in {" ", "\t", "\n"}

\* the characters [0-9] matches
IsDigit(c) == c \in {"0", "1", "2", "3", "4", "5", "6", "7", "8", "9"}

\* the literal lit occurs in s at position p
MatchAt(s, p, lit) ==
    /\ p >= 1
    /\ p + Len(lit) - 1 <= Len(s)
    /\ (lit = <<>> \/ s[p] = lit[1])
    /\ SubSeq(s, p, p + Len(lit) - 1) = lit

\* the positions in p..q where lit occurs in s
FindAll(s, p, q, lit) == {r \in p..q : MatchAt(s, r, lit)}

\* the first position >= p where lit occurs in s, or 0: str.find, from 1
\* (searched sixteen positions at a time)
RECURSIVE Find(_, _, _)
Find(s, p, lit) ==
    LET last == Len(s) - Len(lit) + 1
        upto == IF p + 15 < last THEN p + 15 ELSE last
        hits == FindAll(s, p, upto, lit)
    IN  IF p > last THEN 0
        ELSE IF hits # {} THEN CHOOSE r \in hits : \A t \in hits : r <= t
        ELSE Find(s, upto + 1, lit)

\* the end of the longest run of whitespace that starts at p (p - 1 if none)
RECURSIVE SpaceRunEnd(_, _)
SpaceRunEnd(s, p) ==
    IF p <= Len(s) /\ IsSpace(s[p]) THEN SpaceRunEnd(s, p + 1) ELSE p - 1

\* the end of the longest run of the character c that starts at p
RECURSIVE CharRunEnd(_, _, _)
CharRunEnd(s, p, c) ==
    IF p <= Len(s) /\ s[p] = c THEN CharRunEnd(s, p + 1, c) ELSE p - 1

\* the end of the longest run of blanks and tabs that starts at p
RECURSIVE BlankRunEnd(_, _)
BlankRunEnd(s, p) ==
    IF p <= Len(s) /\ s[p] \in {" ", "\t"} THEN BlankRunEnd(s, p + 1) ELSE p - 1

\* the number of occurrences of the character c in s[p..q]: str.count
RECURSIVE CountIn(_, _, _, _)
CountIn(s, p, q, c) ==
    IF p > q THEN 0
    ELSE (IF s[p] = c THEN 1 ELSE 0) + CountIn(s, p + 1, q, c)

count(s, c) == CountIn(s, 1, Len(s), c)

\* the last position in p..q holding c, or 0
RECURSIVE LastIn(_, _, _, _)
LastIn(s, p, q, c) ==
    IF q < p THEN 0
    ELSE IF s[q] = c THEN q
    ELSE LastIn(s, p, q - 1, c)

\* str.strip()
RECURSIVE lstrip(_)
lstrip(s) == IF s # <<>> /\ IsSpace(Head(s)) THEN lstrip(Tail(s)) ELSE s

RECURSIVE rstrip(_)
rstrip(s) ==
    IF s # <<>> /\ IsSpace(s[Len(s)]) THEN rstrip(SubSeq(s, 1, Len(s) - 1)) ELSE s

strip(s) == rstrip(lstrip(s))

\* str(n) of an integer n
DigitChar(d) == <<"0", "1", "2", "3", "4", "5", "6", "7", "8", "9">>[d + 1]

RECURSIVE StrNat(_)
StrNat(n) ==
    IF n < 10 THEN <<DigitChar(n)>>
    ELSE StrNat(n \div 10) \o <<DigitChar(n % 10)>>

str(n) == IF n < 0 THEN <<"-">> \o StrNat(-n) ELSE StrNat(n)

\* sep.join(texts)
RECURSIVE join(_, _)
join(sep, texts) ==
    IF texts = <<>> THEN <<>>
    ELSE IF Len(texts) = 1 THEN texts[1]
    ELSE texts[1] \o sep \o join(sep, Tail(texts))

\* re.sub / str.replace of a literal: leftmost, non-overlapping occurrences
RECURSIVE SubLiteral(_, _, _, _)
SubLiteral(s, p, lit, rep) ==
    IF p > Len(s) THEN <<>>
    ELSE IF MatchAt(s, p, lit)
         THEN rep \o SubLiteral(s, p + Len(lit), lit, rep)
         ELSE <<s[p]>> \o SubLiteral(s, p + 1, lit, rep)

\* re.sub(open.*?close, rep, s, flags=re.DOTALL): from the leftmost open to
\* the first close after it
RECURSIVE SubSpan(_, _, _, _, _)
SubSpan(s, p, open, close, rep) ==
    IF p > Len(s) THEN <<>>
    ELSE LET q == IF MatchAt(s, p, open) THEN Find(s, p + Len(open), close) ELSE 0
         IN  IF q > 0
             THEN rep \o SubSpan(s, q + Len(close), open, close, rep)
             ELSE <<s[p]>> \o SubSpan(s, p + 1, open, close, rep)

(***************************************************************************)
(* sanitize_latex, rule by rule.                                           *)
(***************************************************************************)
\* re.sub of the code fences (bq bq bq latex | bq bq bq) by "": the
\* alternatives are tried in order
RECURSIVE SubFences(_, _)
SubFences(s, p) ==
    IF p > Len(s) THEN <<>>
    ELSE IF MatchAt(s, p, <<"bq", "bq", "bq", "l", "a", "t", "e", "x">>) THEN SubFences(s, p + 8)
    ELSE IF MatchAt(s, p, <<"bq", "bq", "bq">>) THEN SubFences(s, p + 3)
    ELSE <<s[p]>> \o SubFences(s, p + 1)

\* re.sub('(?<!\\\\)' + re.escape(char), escaped, content): the lookbehind
\* reads the text the substitution started from
RECURSIVE SubUnescaped(_, _, _, _)
SubUnescaped(s, p, c, rep) ==
    IF p > Len(s) THEN <<>>
    ELSE (IF s[p] = c /\ (p = 1 \/ s[p - 1] # "\\") THEN rep ELSE <<s[p]>>)
         \o SubUnescaped(s, p + 1, c, rep)

\* the replacement templates of special_chars once re.sub has expanded them:
\* \% \& \# are kept as written, and the \t of \textasciitilde{} is a TAB
EscapedPercent == <<"\\", "%">>
EscapedAmpersand == <<"\\", "&">>
EscapedHash == <<"\\", "#">>
EscapedTilde == <<"\t", "e", "x", "t", "a", "s", "c", "i", "i", "t", "i", "l", "d", "e", "{", "}">>

EscapeSpecialChars(s) ==
    LET s1 == SubUnescaped(s, 1, "%", EscapedPercent)
        s2 == SubUnescaped(s1, 1, "&", EscapedAmpersand)
        s3 == SubUnescaped(s2, 1, "#", EscapedHash)
    IN  SubUnescaped(s3, 1, "~", EscapedTilde)

\* the characters the lookahead (?![0-9{}]) refuses after an underscore
SubscriptNext(c) == IsDigit(c) \/ c \in {"{", "}"}

\* re.sub(r'(?<!\\)_(?![0-9{}])', r'\\_', content)
RECURSIVE SubUnderscore(_, _)
SubUnderscore(s, p) ==
    IF p > Len(s) THEN <<>>
    ELSE (IF /\ s[p] = "_"
             /\ (p = 1 \/ s[p - 1] # "\\")
             /\ ~(p < Len(s) /\ SubscriptNext(s[p + 1]))
          THEN <<"\\", "_">>
          ELSE <<s[p]>>)
         \o SubUnderscore(s, p + 1)

DegreeCircle == <<"^", "{", "\\", "c", "i", "r", "c", "}">>

TikzRemoved == <<"%", " ", "D", "I", "A", "G", "R", "A", "M", ":", " ", "T", "i", "k", "Z", " ", "p", "i", "c", "t", "u", "r", "e", " ", "r", "e", "m", "o", "v", "e", "d">>

\* re.sub(r'\n\s*\n\s*\n+', '\n\n', content): a newline followed, within
\* one run of whitespace, by two more; the greedy match ends at the run's
\* last newline
RECURSIVE SubBlankLines(_, _)
SubBlankLines(s, p) ==
    IF p > Len(s) THEN <<>>
    ELSE LET e == SpaceRunEnd(s, p)
         IN  IF s[p] = "\n" /\ CountIn(s, p, e, "\n") >= 3
             THEN <<"\n", "\n">> \o SubBlankLines(s, LastIn(s, p, e, "\n") + 1)
             ELSE <<s[p]>> \o SubBlankLines(s, p + 1)

\* re.sub(r'[ \t]+\n', '\n', content)
RECURSIVE SubTrailingBlanks(_, _)
SubTrailingBlanks(s, p) ==
    IF p > Len(s) THEN <<>>
    ELSE LET e == BlankRunEnd(s, p)
         IN  IF e >= p /\ e < Len(s) /\ s[e + 1] = "\n"
             THEN <<"\n">> \o SubTrailingBlanks(s, e + 2)
             ELSE <<s[p]>> \o SubTrailingBlanks(s, p + 1)

\* re.sub(r'\$\$\$+', '$$', content)
RECURSIVE SubDollarRuns(_, _)
SubDollarRuns(s, p) ==
    IF p > Len(s) THEN <<>>
    ELSE LET e == CharRunEnd(s, p, "$")
         IN  IF e - p + 1 >= 3
             THEN <<"$", "$">> \o SubDollarRuns(s, e + 1)
             ELSE <<s[p]>> \o SubDollarRuns(s, p + 1)

\* re.sub(r'\$\$\s*\$\$', '', content)
RECURSIVE SubEmptyMath(_, _)
SubEmptyMath(s, p) ==
    IF p > Len(s) THEN <<>>
    ELSE LET q == SpaceRunEnd(s, p + 2) + 1
         IN  IF MatchAt(s, p, <<"$", "$">>) /\ MatchAt(s, q, <<"$", "$">>)
             THEN SubEmptyMath(s, q + 2)
             ELSE <<s[p]>> \o SubEmptyMath(s, p + 1)

EmptyContent == <<"%", " ", "E", "m", "p", "t", "y", " ", "c", "o", "n", "t", "e", "n", "t">>

\* the rules of sanitize_latex after its guard, in the order of the source
SanitizeRules(content) ==
    LET c1 == SubSpan(content, 1, <<"\\", "d", "o", "c", "u", "m", "e", "n", "t", "c", "l", "a", "s", "s">>, <<"\\", "b", "e", "g", "i", "n", "{", "d", "o", "c", "u", "m", "e", "n", "t", "}">>, <<>>)
        c2 == SubLiteral(c1, 1, <<"\\", "e", "n", "d", "{", "d", "o", "c", "u", "m", "e", "n", "t", "}">>, <<>>)
        c3 == SubFences(c2, 1)
        c4 == EscapeSpecialChars(c3)
        c5 == SubUnderscore(c4, 1)
        c6 == SubLiteral(c5, 1, <<"\\", "d", "e", "g", "r", "e", "e">>, DegreeCircle)
        c7 == SubLiteral(c6, 1, <<"deg">>, DegreeCircle)
        c8 == SubSpan(c7, 1, <<"\\", "b", "e", "g", "i", "n", "{", "t", "i", "k", "z", "p", "i", "c", "t", "u", "r", "e", "}">>, <<"\\", "e", "n", "d", "{", "t", "i", "k", "z", "p", "i", "c", "t", "u", "r", "e", "}">>,
                      TikzRemoved)
        c9 == SubBlankLines(c8, 1)
        c10 == SubTrailingBlanks(c9, 1)
        c11 == SubDollarRuns(c10, 1)
        c12 == SubEmptyMath(c11, 1)
    IN  strip(c12)

sanitize_latex(content) ==
    IF content = <<>> \/ strip(content) = <<>> THEN EmptyContent
    ELSE SanitizeRules(content)

(***************************************************************************)
(* validate_latex_syntax: <<is_valid, message>>.                           *)
(***************************************************************************)
validate_latex_syntax(content) ==
    LET brace_count == count(content, "{") - count(content, "}")
        dollar_count == count(content, "$")
    IN  IF brace_count # 0
        THEN <<FALSE, <<"U", "n", "b", "a", "l", "a", "n", "c", "e", "d", " ", "b", "r", "a", "c", "e", "s", ":", " ">> \o str(brace_count)
                      \o <<" ", "e", "x", "t", "r", "a", " ", "o", "p", "e", "n", "i", "n", "g", " ", "b", "r", "a", "c", "e", "s">>>>
        ELSE IF dollar_count % 2 # 0
        THEN <<FALSE, <<"U", "n", "b", "a", "l", "a", "n", "c", "e", "d", " ", "m", "a", "t", "h", " ", "d", "e", "l", "i", "m", "i", "t", "e", "r", "s", " ", "(", "$", ")">>>>
        ELSE IF Find(content, 1, <<"\\", "\\", "\\">>) > 0
        THEN <<FALSE, <<"T", "o", "o", " ", "m", "a", "n", "y", " ", "c", "o", "n", "s", "e", "c", "u", "t", "i", "v", "e", " ", "b", "a", "c", "k", "s", "l", "a", "s", "h", "e", "s">>>>
        ELSE <<TRUE, <<"S", "y", "n", "t", "a", "x", " ", "a", "p", "p", "e", "a", "r", "s", " ", "v", "a", "l", "i", "d">>>>

(***************************************************************************)
(* The inputs of the text functions: concatenations of pieces.             *)
(***************************************************************************)
InputPieces ==
    { <<" ">>, <<"\n">>, <<"a">>, <<"1">>, <<"_">>, <<"{">>, <<"}">>, <<"\\">>, <<"%">>, <<"$", "$">>,
      <<"bq", "bq", "bq">> }

\* longer texts, whose tokens no short concatenation of pieces spells
InputSamples ==
    { <<"\\", "b", "e", "g", "i", "n", "{", "t", "i", "k", "z", "p", "i", "c", "t", "u", "r", "e", "}", "a", "\\", "e", "n", "d", "{", "t", "i", "k", "z", "p", "i", "c", "t", "u", "r", "e", "}">>,
      <<"\\", "d", "o", "c", "u", "m", "e", "n", "t", "c", "l", "a", "s", "s", "{", "a", "}", "\\", "b", "e", "g", "i", "n", "{", "d", "o", "c", "u", "m", "e", "n", "t", "}", "a", "_", "1", "\\", "e", "n", "d", "{", "d", "o", "c", "u", "m", "e", "n", "t", "}">>,
      <<"bq", "bq", "bq", "l", "a", "t", "e", "x", "\n", "a", "~", "b", "\n", "bq", "bq", "bq">>,
      <<"9", "0", "\\", "d", "e", "g", "r", "e", "e">>,
      <<"9", "0", "deg">>,
      <<"a", " ", "&", " ", "b", " ", "#", " ", "1">>,
      <<"a", " ", "\n", "\n", "\n", "\n", "b">>,
      <<"$", "$", "$", "$", "$", "a", " ", "$", "$">> }

RECURSIVE Concatenations(_)
Concatenations(n) ==
    IF n = 0 THEN {<<>>}
    ELSE LET shorter == Concatenations(n - 1)
         IN  shorter \cup {t \o piece : t \in shorter, piece \in InputPieces}

Inputs == Concatenations(MaxPieces) \cup InputSamples

(***************************************************************************)
(* The state of one request.                                               *)
(***************************************************************************)
VARIABLES
    pc,               \* where the request is
    script_id,        \* the route's <script_id>
    save_to_django,   \* generate_latex_from_script's flag
    fetched,          \* "pending", "raised" or "returned": fetch_images_from_db
    base64_images,    \* what fetch_images_from_db returned
    i,                \* the page the loop is at (enumerate, start=1)
    latex_sections,   \* generate_latex_from_script's list
    result,           \* generate_latex_from_script's result dict
    existing_vlmdesc, \* save_latex_to_django's local
    save_success,     \* save_latex_to_django returned True
    status_code,      \* the route's HTTP status (0: not responded)
    db,               \* the compare-text service: script id -> its vlmdesc
    url_index,        \* get_existing_vlmdesc: the URL its loop is at (0: not in it)
    calls,            \* the upstream calls made so far
    log,              \* the logger's warnings and errors
    san_pc,           \* the text functions on their own: where
    san_in,           \* their input
    san_out,          \* sanitize_latex(san_in)
    san_again         \* sanitize_latex(san_out)

runVars ==
    <<pc, script_id, save_to_django, fetched, base64_images, i, latex_sections,
      result, url_index, existing_vlmdesc, save_success, status_code, db, calls,
      log>>

sanVars == <<san_pc, san_in, san_out, san_again>>

vars == <<runVars, sanVars>>

(***************************************************************************)
(* fetch_images_from_db.                                                   *)
(***************************************************************************)
\* an image_data value, in tokens: missing, a data URL, or bare base64
NoImageData == <<>>
DataUrl(k) == <<"data:image/jpeg;base64", ",", "payload", k>>
Base64(k) == <<"payload", k>>

\* image_data.split(',', 1)[1]
RECURSIVE AfterComma(_)
AfterComma(tokens) ==
    IF tokens = <<>> THEN <<>>
    ELSE IF Head(tokens) = "," THEN Tail(tokens)
    ELSE AfterComma(Tail(tokens))

\* sorted(data, key=page_number): a stable insertion
RECURSIVE InsertByPage(_, _)
InsertByPage(img, images) ==
    IF images = <<>> THEN <<img>>
    ELSE IF img.page_number < Head(images).page_number THEN <<img>> \o images
    ELSE <<Head(images)>> \o InsertByPage(img, Tail(images))

RECURSIVE SortedByPage(_)
SortedByPage(data) ==
    IF data = <<>> THEN <<>>
    ELSE InsertByPage(data[Len(data)], SortedByPage(SubSeq(data, 1, Len(data) - 1)))

\* the loop over the sorted images: the image_data_list
RECURSIVE ImageDataList(_)
ImageDataList(images) ==
    IF images = <<>> THEN <<>>
    ELSE LET image_data == Head(images).image_data
         IN  (IF image_data # NoImageData
              THEN <<IF Head(image_data) = "data:image/jpeg;base64"
                     THEN AfterComma(image_data) ELSE image_data>>
              ELSE <<>>)
             \o ImageDataList(Tail(images))

\* the pages the loop warns about: "No image_data found for page ..."
MissingPages(data) ==
    {data[k].page_number : k \in {j \in 1..Len(data) : data[j].image_data = NoImageData}}

fetch_images_from_db(data) ==
    IF data = <<>> THEN <<>> ELSE ImageDataList(SortedByPage(data))

(***************************************************************************)
(* analyze_image_latex: the text it returns for the model's reply.         *)
(***************************************************************************)
analyze_image_latex(reply, image_number) ==
    IF reply.kind = "raises"
    THEN <<"%", " ", "E", "r", "r", "o", "r", " ", "p", "r", "o", "c", "e", "s", "s", "i", "n", "g", " ", "i", "m", "a", "g", "e", " ">> \o str(image_number) \o <<":", " ">> \o reply.text
    ELSE IF reply.kind = "none"
    THEN <<"%", " ", "N", "o", " ", "c", "o", "n", "t", "e", "n", "t", " ", "e", "x", "t", "r", "a", "c", "t", "e", "d", " ", "f", "r", "o", "m", " ", "i", "m", "a", "g", "e", " ">> \o str(image_number)
    ELSE strip(reply.text)

(***************************************************************************)
(* generate_complete_latex_document.  The static lines of the preamble     *)
(* between its first line and the two places that hold script_id are left  *)
(* out.                                                                    *)
(***************************************************************************)
Preamble(sid) ==
    <<"\\", "d", "o", "c", "u", "m", "e", "n", "t", "c", "l", "a", "s", "s", "[", "1", "1", "p", "t", ",", " ", "a", "4", "p", "a", "p", "e", "r", "]", "{", "a", "r", "t", "i", "c", "l", "e", "}", "\n", "\\", "f", "a", "n", "c", "y", "h", "e", "a", "d", "[", "L", "]", "{", "S", "c", "r", "i", "p", "t", " ", "I", "D", ":", " ">>
    \o sid
    \o <<"}", "\n", "\\", "b", "e", "g", "i", "n", "{", "d", "o", "c", "u", "m", "e", "n", "t", "}", "\n", "{", "\\", "l", "a", "r", "g", "e", " ", "S", "c", "r", "i", "p", "t", " ", "I", "D", ":", " ">>
    \o sid
    \o <<"}", "\\", "\\", "[", "0", ".", "5", "c", "m", "]", "\n", "\\", "n", "e", "w", "p", "a", "g", "e">>

EndMatter == <<"\n", "\\", "e", "n", "d", "{", "d", "o", "c", "u", "m", "e", "n", "t", "}", "\n">>

generate_complete_latex_document(sections, sid) ==
    Preamble(sid) \o <<"\n", "\n">> \o join(<<"\n", "\n">>, sections) \o <<"\n", "\n">> \o EndMatter

(***************************************************************************)
(* get_existing_vlmdesc.  A JSON value of the vlmdesc field is a chain of  *)
(* one-key dicts down to a leaf: a sequence of keys, then the leaf.        *)
(***************************************************************************)
EmptyDict == <<"{}">>

\* {"vlm_desc": v}
VlmDescOf(v) == <<"vlm_desc">> \o v

\* str.isdigit()
isdigit(text) == text # <<>> /\ \A k \in 1..Len(text) : IsDigit(text[k])

\* the items of a list response: the service's records, in its order
RecordOrder == << <<"1", "2">>, <<"a", "b">> >>

ListItems(store) ==
    [k \in 1..Len(RecordOrder) |->
        [script_id |-> RecordOrder[k], vlmdesc |-> store[RecordOrder[k]]]]

\* (item.get('script_id') == script_id or item.get('script_id') ==
\* int(script_id)) if script_id.isdigit() else False: the conditional
\* expression binds weaker than or
ItemMatches(item, sid) ==
    IF isdigit(sid) THEN item.script_id = sid ELSE FALSE

\* what one URL's response makes the function do: <<returned, value>>
UrlOutcome(kind, sid, store) ==
    IF kind = "dict" THEN <<TRUE, store[sid]>>
    ELSE IF kind = "dict_without_vlmdesc" THEN <<TRUE, EmptyDict>>
    ELSE IF kind = "list"
    THEN LET items == ListItems(store)
             hits == {k \in 1..Len(items) : ItemMatches(items[k], sid)}
         IN  IF hits # {}
             THEN <<TRUE, items[CHOOSE k \in hits : \A j \in hits : k <= j].vlmdesc>>
             ELSE <<TRUE, items[1].vlmdesc>>
    ELSE IF kind = "raises_other" THEN <<TRUE, EmptyDict>>
    ELSE <<FALSE, EmptyDict>>

UrlResponseKinds ==
    {"dict", "dict_without_vlmdesc", "list", "empty_list", "not_200",
     "raises_request_exception", "raises_other"}

\* possible_urls
NumUrls == 3

(***************************************************************************)
(* generate_latex_from_script and its routes.                              *)
(***************************************************************************)
ScriptIds == { <<"1", "2">>, <<"a", "b">> }

InitialResult(sid) ==
    [success |-> FALSE, script_id |-> sid, message |-> <<>>,
     latex_content |-> <<>>, complete_document |-> <<>>,
     pages_processed |-> 0, errors |-> <<>>]

NoImagesMessage == <<"N", "o", " ", "i", "m", "a", "g", "e", "s", " ", "f", "o", "u", "n", "d", " ", "f", "o", "r", " ", "t", "h", "e", " ", "g", "i", "v", "e", "n", " ", "s", "c", "r", "i", "p", "t", "_", "i", "d">>

SavedMessage(sid) == <<"L", "a", "T", "e", "X", " ", "g", "e", "n", "e", "r", "a", "t", "e", "d", " ", "a", "n", "d", " ", "s", "a", "v", "e", "d", " ", "s", "u", "c", "c", "e", "s", "s", "f", "u", "l", "l", "y", " ", "f", "o", "r", " ", "s", "c", "r", "i", "p", "t", "_", "i", "d", " ">> \o sid

GeneratedMessage(sid) == <<"L", "a", "T", "e", "X", " ", "g", "e", "n", "e", "r", "a", "t", "e", "d", " ", "s", "u", "c", "c", "e", "s", "s", "f", "u", "l", "l", "y", " ", "f", "o", "r", " ", "s", "c", "r", "i", "p", "t", "_", "i", "d", " ">> \o sid

\* a plausible slip: a failed save reported like any other error
SaveFailedMessage_AsError(save_message) == <<"E", "r", "r", "o", "r", ":", " ">> \o save_message

SaveFailedMessage(save_message) ==
    <<"L", "a", "T", "e", "X", " ", "g", "e", "n", "e", "r", "a", "t", "e", "d", " ", "b", "u", "t", " ", "f", "a", "i", "l", "e", "d", " ", "t", "o", " ", "s", "a", "v", "e", ":", " ">> \o save_message

ErrorMessage(e) == <<"E", "r", "r", "o", "r", ":", " ">> \o e

\* a plausible slip: enumerate without start=1
PageSection_ZeroBased(n, cleaned_latex) ==
    <<"%", " ", "=", "=", "=", "=", "=", " ", "P", "a", "g", "e", " ">> \o str(n - 1) \o <<" ", "=", "=", "=", "=", "=", "\n">> \o cleaned_latex \o <<"\n">>

PageSection(n, cleaned_latex) ==
    <<"%", " ", "=", "=", "=", "=", "=", " ", "P", "a", "g", "e", " ">> \o str(n) \o <<" ", "=", "=", "=", "=", "=", "\n">> \o cleaned_latex \o <<"\n">>

FailedPageError(n, e) == <<"F", "a", "i", "l", "e", "d", " ", "t", "o", " ", "p", "r", "o", "c", "e", "s", "s", " ", "p", "a", "g", "e", " ">> \o str(n) \o <<":", " ">> \o e

FailedPageSection(n, e) == <<"%", " ">> \o FailedPageError(n, e) \o <<"\n">>

\* the except clause of generate_latex_from_script
OuterExcept(res, e) ==
    [res EXCEPT !.message = ErrorMessage(e), !.errors = Append(@, e)]

\* status_code = 200 if result["success"] else 500
StatusOf(res) == IF res.success THEN 200 ELSE 500

\* generate_latex_from_script returns res, and the route answers with
\* jsonify(result), status_code
Returns(res) ==
    /\ result' = res
    /\ status_code' = StatusOf(res)
    /\ pc' = "done"

Start(sid, save) ==
    /\ pc = "idle"
    /\ script_id' = sid
    /\ save_to_django' = save
    /\ result' = InitialResult(sid)
    /\ latex_sections' = <<>>
    /\ pc' = "fetch"
    /\ UNCHANGED <<fetched, base64_images, i, url_index, existing_vlmdesc,
                   save_success, status_code, db, calls, log, sanVars>>

generate_latex_route == \E sid \in ScriptIds : Start(sid, TRUE)

generate_latex_no_save_route == \E sid \in ScriptIds : Start(sid, FALSE)

\* a plausible slip: the check for an empty fetch left out
NoImages_Never(images) == FALSE

\* if not base64_images
NoImages(images) == images = <<>>

\* the responses of the image service: pages 1..n in any order, each with
\* its image_data missing, a data URL or bare base64
RECURSIVE Orders(_)
Orders(S) ==
    IF S = {} THEN {<<>>}
    ELSE UNION {{<<x>> \o t : t \in Orders(S \ {x})} : x \in S}

ImageDataKinds == {"missing", "data_url", "base64"}

ImageDataOf(kind, k) ==
    IF kind = "missing" THEN NoImageData
    ELSE IF kind = "data_url" THEN DataUrl(k)
    ELSE Base64(k)

ImageResponses ==
    UNION {
      {[k \in 1..n |-> [page_number |-> order[k],
                        image_data |-> ImageDataOf(kinds[order[k]], order[k])]] :
         order \in Orders(1..n), kinds \in [1..n -> ImageDataKinds]} :
      n \in 0..MaxPages}

FetchException == <<"5", "0", "3", " ", "S", "e", "r", "v", "e", "r", " ", "E", "r", "r", "o", "r">>

\* fetch_images_from_db raises: the request, its status or its JSON failed
FetchRaises ==
    /\ pc = "fetch"
    /\ fetched' = "raised"
    /\ calls' = calls \cup {"GET script-images"}
    /\ log' = log \cup {<<"error", "Failed to fetch images from API", 0>>,
                        <<"error", "Error in generate_latex_from_script", 0>>}
    /\ Returns(OuterExcept(result, FetchException))
    /\ UNCHANGED <<script_id, save_to_django, base64_images, i, latex_sections,
                   url_index, existing_vlmdesc, save_success, db, sanVars>>

\* fetch_images_from_db returns, and generate_latex_from_script's check of it
FetchReturns ==
    /\ pc = "fetch"
    /\ \E data \in ImageResponses :
          LET images == fetch_images_from_db(data)
          IN  /\ base64_images' = images
              /\ log' = log \cup
                    (IF data = <<>>
                     THEN {<<"warning", "No images found for script_id", 0>>}
                     ELSE {<<"warning", "No image_data found for page", k>> :
                             k \in MissingPages(data)})
              /\ IF NoImages(images)
                 THEN /\ Returns([result EXCEPT !.message = NoImagesMessage])
                      /\ i' = i
                 ELSE /\ UNCHANGED <<result, status_code>>
                      /\ pc' = "page"
                      /\ i' = 1
    /\ fetched' = "returned"
    /\ calls' = calls \cup {"GET script-images"}
    /\ UNCHANGED <<script_id, save_to_django, latex_sections, url_index,
                   existing_vlmdesc, save_success, db, sanVars>>

\* what the model call does for one image
ModelReplies ==
    { [kind |-> "content", text |-> <<"a", "_", "b">>],
      [kind |-> "content", text |-> <<"{", "a">>],
      [kind |-> "none", text |-> <<>>],
      [kind |-> "raises", text |-> <<"t", "i", "m", "e", "o", "u", "t">>] }

AnalyzeLog(reply, n) ==
    IF reply.kind = "raises" THEN {<<"error", "Error analyzing image", n>>}
    ELSE IF reply.kind = "none"
    THEN {<<"warning", "Empty response from OpenAI for image", n>>}
    ELSE {}

\* one turn of the page loop whose try block runs to its end
ProcessPage ==
    /\ pc = "page"
    /\ i <= Len(base64_images)
    /\ \E reply \in ModelReplies :
          LET raw_latex == analyze_image_latex(reply, i)
              cleaned_latex == sanitize_latex(raw_latex)
              validation == validate_latex_syntax(cleaned_latex)
              is_valid == validation[1]
              validation_msg == validation[2]
              annotated == IF is_valid THEN cleaned_latex
                           ELSE cleaned_latex \o <<"\n", "%", " ", "S", "y", "n", "t", "a", "x", " ", "w", "a", "r", "n", "i", "n", "g", ":", " ">>
                                \o validation_msg
          IN  /\ latex_sections' = Append(latex_sections, PageSection(i, annotated))
              /\ result' =
                    [result EXCEPT
                       !.errors = IF is_valid THEN @
                                  ELSE Append(@, <<"P", "a", "g", "e", " ">> \o str(i) \o <<":", " ">>
                                                 \o validation_msg),
                       !.pages_processed = @ + 1]
              /\ log' = log \cup AnalyzeLog(reply, i)
                            \cup (IF is_valid THEN {}
                                  ELSE {<<"warning", "syntax warning", i>>})
    /\ calls' = calls \cup {"model"}
    /\ i' = i + 1
    /\ UNCHANGED <<pc, script_id, save_to_django, fetched, base64_images,
                   url_index, existing_vlmdesc, save_success, status_code, db, sanVars>>

PageException == <<"o", "u", "t", " ", "o", "f", " ", "m", "e", "m", "o", "r", "y">>

\* one turn of the page loop in which an exception leaves the try block
\* (analyze_image_latex catches its own; the text functions after it can
\* still raise, as on exhausted memory or recursion)
ProcessPageRaises ==
    /\ pc = "page"
    /\ i <= Len(base64_images)
    /\ log' = log \cup {<<"error", "Failed to process page", i>>}
    /\ latex_sections' = Append(latex_sections, FailedPageSection(i, PageException))
    /\ result' = [result EXCEPT
                    !.errors = Append(@, FailedPageError(i, PageException))]
    /\ calls' = calls \cup {"model"}
    /\ i' = i + 1
    /\ UNCHANGED <<pc, script_id, save_to_django, fetched, base64_images,
                   url_index, existing_vlmdesc, save_success, status_code, db, sanVars>>

\* after the loop: the content, the document, and the branch on save_to_django
Assemble ==
    /\ pc = "page"
    /\ i > Len(base64_images)
    /\ LET latex_content == join(<<"\n", "\n">>, latex_sections)
           complete_document ==
               generate_complete_latex_document(latex_sections, script_id)
           generated == [result EXCEPT !.latex_content = latex_content,
                                       !.complete_document = complete_document]
       IN  IF save_to_django
           THEN /\ result' = generated
                /\ url_index' = 1
                /\ pc' = "get_existing_vlmdesc"
                /\ status_code' = status_code
           ELSE /\ Returns([generated EXCEPT
                               !.success = TRUE,
                               !.message = GeneratedMessage(script_id)])
                /\ url_index' = url_index
    /\ UNCHANGED <<script_id, save_to_django, fetched, base64_images, i,
                   latex_sections, existing_vlmdesc, save_success, db, calls, log,
                   sanVars>>

(***************************************************************************)
(* save_latex_to_django, call by call.                                     *)
(***************************************************************************)
\* a plausible slip: success set whatever the save returned
SaveReturns_AlwaysSuccess(ok, save_message) ==
    /\ save_success' = ok
    /\ Returns([result EXCEPT !.success = TRUE,
                              !.message = IF ok THEN SavedMessage(script_id)
                                          ELSE SaveFailedMessage(save_message)])

\* save_latex_to_django returned (save_success, save_message)
SaveReturns(ok, save_message) ==
    /\ save_success' = ok
    /\ Returns(IF ok
               THEN [result EXCEPT !.success = TRUE,
                                   !.message = SavedMessage(script_id)]
               ELSE [result EXCEPT !.message = SaveFailedMessage(save_message)])

\* an exception that save_latex_to_django does not catch
SaveRaises(e) ==
    /\ save_success' = save_success
    /\ Returns(OuterExcept(result, e))

\* one turn of get_existing_vlmdesc's loop over possible_urls: the request
\* and what its response makes the function do
TryUrl ==
    /\ pc = "get_existing_vlmdesc"
    /\ \E kind \in UrlResponseKinds :
          LET out == UrlOutcome(kind, script_id, db)
          IN  IF out[1]
              THEN /\ existing_vlmdesc' = out[2]
                   /\ url_index' = 0
                   /\ pc' = "timestamp"
              ELSE IF url_index = NumUrls
              THEN /\ existing_vlmdesc' = EmptyDict
                   /\ url_index' = 0
                   /\ pc' = "timestamp"
              ELSE /\ existing_vlmdesc' = existing_vlmdesc
                   /\ url_index' = url_index + 1
                   /\ pc' = pc
    /\ calls' = calls \cup {"GET compare-text"}
    /\ UNCHANGED <<script_id, save_to_django, fetched, base64_images, i,
                   latex_sections, result, save_success, status_code, db, log,
                   sanVars>>

\* the worldtimeapi request answers with JSON
TimestampOk ==
    /\ pc = "timestamp"
    /\ calls' = calls \cup {"GET worldtimeapi"}
    /\ pc' = "post"
    /\ UNCHANGED <<script_id, save_to_django, fetched, base64_images, i,
                   latex_sections, result, url_index, existing_vlmdesc, save_success,
                   status_code, db, log, sanVars>>

RequestError == <<"c", "o", "n", "n", "e", "c", "t", "i", "o", "n", " ", "r", "e", "f", "u", "s", "e", "d">>

\* the worldtimeapi request raises a RequestException
TimestampRequestError ==
    /\ pc = "timestamp"
    /\ calls' = calls \cup {"GET worldtimeapi"}
    /\ log' = log \cup {<<"error", "Error saving LaTeX data", 0>>}
    /\ SaveReturns(FALSE, <<"A", "P", "I", " ", "r", "e", "q", "u", "e", "s", "t", " ", "e", "r", "r", "o", "r", ":", " ">> \o RequestError)
    /\ UNCHANGED <<script_id, save_to_django, fetched, base64_images, i,
                   latex_sections, url_index, existing_vlmdesc, db, sanVars>>

JsonError == <<"E", "x", "p", "e", "c", "t", "i", "n", "g", " ", "v", "a", "l", "u", "e">>

\* the worldtimeapi answer is no JSON object: an exception that is no
\* RequestException
TimestampOtherError ==
    /\ pc = "timestamp"
    /\ calls' = calls \cup {"GET worldtimeapi"}
    /\ log' = log \cup {<<"error", "Error in generate_latex_from_script", 0>>}
    /\ SaveRaises(JsonError)
    /\ UNCHANGED <<script_id, save_to_django, fetched, base64_images, i,
                   latex_sections, url_index, existing_vlmdesc, db, sanVars>>

\* the service stores the payload it is posted: its vlmdesc field
Stored(store, sid, vlmdesc) == [store EXCEPT ![sid] = vlmdesc]

\* the vlmdesc field of the payload
PayloadVlmdesc(existing) == VlmDescOf(existing)

\* the POST answers 200
PostOk ==
    /\ pc = "post"
    /\ calls' = calls \cup {"POST compare-text"}
    /\ db' = Stored(db, script_id, PayloadVlmdesc(existing_vlmdesc))
    /\ SaveReturns(TRUE, <<>>)
    /\ UNCHANGED <<script_id, save_to_django, fetched, base64_images, i,
                   latex_sections, url_index, existing_vlmdesc, log, sanVars>>

\* the POST answers 200 with a body that is no JSON: response.json() raises,
\* a RequestException or a plain ValueError as the requests library at hand
\* has it; the service has stored the payload
PostOkBadJson ==
    /\ pc = "post"
    /\ calls' = calls \cup {"POST compare-text"}
    /\ db' = Stored(db, script_id, PayloadVlmdesc(existing_vlmdesc))
    /\ \/ /\ log' = log \cup {<<"error", "Error saving LaTeX data", 0>>}
          /\ SaveReturns(FALSE, <<"A", "P", "I", " ", "r", "e", "q", "u", "e", "s", "t", " ", "e", "r", "r", "o", "r", ":", " ">> \o JsonError)
       \/ /\ log' = log \cup {<<"error", "Error in generate_latex_from_script", 0>>}
          /\ SaveRaises(JsonError)
    /\ UNCHANGED <<script_id, save_to_django, fetched, base64_images, i,
                   latex_sections, url_index, existing_vlmdesc, sanVars>>

\* the POST answers with another status
PostNot200 ==
    /\ pc = "post"
    /\ calls' = calls \cup {"POST compare-text"}
    /\ log' = log \cup {<<"error", "Failed to save LaTeX data", 0>>}
    /\ SaveReturns(FALSE, <<"A", "P", "I", " ", "e", "r", "r", "o", "r", ":", " ", "5", "0", "0", " ", "-", " ", "I", "n", "t", "e", "r", "n", "a", "l", " ", "S", "e", "r", "v", "e", "r", " ", "E", "r", "r", "o", "r">>)
    /\ UNCHANGED <<script_id, save_to_django, fetched, base64_images, i,
                   latex_sections, url_index, existing_vlmdesc, db, sanVars>>

\* the POST raises a RequestException
PostRequestError ==
    /\ pc = "post"
    /\ calls' = calls \cup {"POST compare-text"}
    /\ log' = log \cup {<<"error", "Error saving LaTeX data", 0>>}
    /\ SaveReturns(FALSE, <<"A", "P", "I", " ", "r", "e", "q", "u", "e", "s", "t", " ", "e", "r", "r", "o", "r", ":", " ">> \o RequestError)
    /\ UNCHANGED <<script_id, save_to_django, fetched, base64_images, i,
                   latex_sections, url_index, existing_vlmdesc, db, sanVars>>

\* what the service holds before the request: for each script a leaf value
\* of its own
InitialDb == [sid \in ScriptIds |-> <<"V">> \o sid]

Init ==
    /\ pc = "idle"
    /\ script_id = <<>>
    /\ save_to_django = FALSE
    /\ fetched = "pending"
    /\ base64_images = <<>>
    /\ i = 0
    /\ latex_sections = <<>>
    /\ result = InitialResult(<<>>)
    /\ url_index = 0
    /\ existing_vlmdesc = EmptyDict
    /\ save_success = FALSE
    /\ status_code = 0
    /\ db = InitialDb
    /\ calls = {}
    /\ log = {}
    /\ san_pc = "off"
    /\ san_in = <<>>
    /\ san_out = <<>>
    /\ san_again = <<>>

Next ==
    \/ generate_latex_route
    \/ generate_latex_no_save_route
    \/ FetchRaises
    \/ FetchReturns
    \/ ProcessPage
    \/ ProcessPageRaises
    \/ Assemble
    \/ TryUrl
    \/ TimestampOk
    \/ TimestampRequestError
    \/ TimestampOtherError
    \/ PostOk
    \/ PostOkBadJson
    \/ PostNot200
    \/ PostRequestError

Spec == Init /\ [][Next]_vars

(***************************************************************************)
(* Properties of a request.                                                *)
(***************************************************************************)
HasPrefix(text, prefix) == MatchAt(text, 1, prefix)

\* the number of places where lit occurs in text
Occurrences(text, lit) == Cardinality(FindAll(text, 1, Len(text), lit))

\* the texts occur in text one after the other, from position p on
RECURSIVE InOrderFrom(_, _, _)
InOrderFrom(text, p, texts) ==
    IF texts = <<>> THEN TRUE
    ELSE LET q == Find(text, p, Head(texts))
         IN  q > 0 /\ InOrderFrom(text, q + Len(Head(texts)), Tail(texts))

PageHeader(k) == <<"%", " ", "=", "=", "=", "=", "=", " ", "P", "a", "g", "e", " ">> \o str(k) \o <<" ", "=", "=", "=", "=", "=", "\n">>

FailedHeader(k) == <<"%", " ", "F", "a", "i", "l", "e", "d", " ", "t", "o", " ", "p", "r", "o", "c", "e", "s", "s", " ", "p", "a", "g", "e", " ">> \o str(k) \o <<":", " ">>

IsSectionOfPage(section, k) ==
    HasPrefix(section, PageHeader(k)) \/ HasPrefix(section, FailedHeader(k))

NumImages == Len(base64_images)

\* the page loop has run to its end over at least one image
LoopCompleted ==
    /\ fetched = "returned"
    /\ NumImages >= 1
    /\ pc \in {"get_existing_vlmdesc", "timestamp", "post", "done"}

\* C1: with n >= 1 images fetched, every image contributes exactly one
\* section, whether its page succeeded, failed validation or raised; a page
\* that raises does not stop the later pages; and the sections stand in
\* latex_content and complete_document in the order of the pages 1..n.
C1_OneSectionPerImageInOrder ==
    /\ (pc = "page" /\ fetched = "returned") => Len(latex_sections) = i - 1
    /\ LoopCompleted => Len(latex_sections) = NumImages
    /\ (LoopCompleted /\ pc = "done") =>
         /\ \A k \in 1..NumImages : IsSectionOfPage(latex_sections[k], k)
         /\ InOrderFrom(result.latex_content, 1, latex_sections)
         /\ InOrderFrom(result.complete_document, 1, latex_sections)
         /\ Occurrences(result.latex_content, <<"%", " ", "=", "=", "=", "=", "=", " ", "P", "a", "g", "e", " ">>)
              + Occurrences(result.latex_content, <<"%", " ", "F", "a", "i", "l", "e", "d", " ", "t", "o", " ", "p", "r", "o", "c", "e", "s", "s", " ", "p", "a", "g", "e", " ">>)
            = NumImages

\* three pages, the second raised inside the per-page step, and the run
\* went on to the third and answered
C1_Witness ==
    /\ pc = "done"
    /\ fetched = "returned"
    /\ NumImages = 3
    /\ HasPrefix(latex_sections[1], PageHeader(1))
    /\ HasPrefix(latex_sections[2], FailedHeader(2))
    /\ HasPrefix(latex_sections[3], PageHeader(3))
    /\ Len(result.errors) = 2

\* the pages whose model call failed: analyze_image_latex logged the error
ModelFailedPages ==
    {k \in 1..NumImages : <<"error", "Error analyzing image", k>> \in log}

\* the entries of the errors list that name page k
ErrorsOfPage(k) ==
    {j \in 1..Len(result.errors) :
        \/ HasPrefix(result.errors[j], <<"P", "a", "g", "e", " ">> \o str(k) \o <<":", " ">>)
        \/ HasPrefix(result.errors[j], FailedPageError(k, <<>>))}

\* every other page went through: none raised, none failed validation
OtherPagesSucceeded ==
    \A k \in 1..NumImages :
       /\ <<"error", "Failed to process page", k>> \notin log
       /\ k \notin ModelFailedPages => <<"warning", "syntax warning", k>> \notin log

\* C2: when the model call fails for the pages of F and succeeds for the
\* others, the result has pages_processed = n - |F| and its errors list has
\* exactly one entry for each page of F, naming that page.
C2_ModelFailuresCounted ==
    (pc = "done" /\ LoopCompleted /\ OtherPagesSucceeded) =>
        /\ result.pages_processed = NumImages - Cardinality(ModelFailedPages)
        /\ \A k \in 1..NumImages :
              Cardinality(ErrorsOfPage(k)) = IF k \in ModelFailedPages THEN 1 ELSE 0

\* the fetch returned, with no image
NoImagesFound == fetched = "returned" /\ base64_images = <<>>

\* C3: when the fetch returns no images the function returns at once with
\* success false, no page processed, empty latex_content and
\* complete_document and a message, having made no model call and no
\* persistence call, whatever save_to_django is.
C3_NoImagesReturnsAtOnce ==
    NoImagesFound =>
        /\ pc = "done"
        /\ result.success = FALSE
        /\ result.pages_processed = 0
        /\ result.latex_content = <<>>
        /\ result.complete_document = <<>>
        /\ result.message # <<>>
        /\ calls = {"GET script-images"}

\* a request that asked for the save and found no image has answered
C3_Witness == NoImagesFound /\ pc = "done" /\ save_to_django

\* C4: once at least one image is fetched and the loop is done, success is
\* true exactly when the save was not asked for or reported success; the
\* errors recorded for pages do not make it false.
C4_SuccessIffSaved ==
    (pc = "done" /\ LoopCompleted) =>
        (result.success <=> (~save_to_django \/ save_success))

\* a saved run that recorded a page error answers with success
C4_Witness ==
    /\ pc = "done"
    /\ LoopCompleted
    /\ save_to_django
    /\ save_success
    /\ result.errors # <<>>
    /\ result.success

\* save_latex_to_django returned False: a status other than 200, or a
\* request error
SaveFailed ==
    \/ <<"error", "Failed to save LaTeX data", 0>> \in log
    \/ <<"error", "Error saving LaTeX data", 0>> \in log

\* the sections the try block of the loop completed
CompletedSections ==
    {k \in 1..Len(latex_sections) : HasPrefix(latex_sections[k], PageHeader(k))}

\* C5: when the save is asked for and fails after generation, the result
\* still holds the generated latex_content and complete_document and the
\* pages_processed of the generation, with success false and a message that
\* states the save failure and differs from that of a fetch failure.
C5_FailedSaveKeepsContent ==
    (pc = "done" /\ SaveFailed) =>
        /\ result.latex_content # <<>>
        /\ result.latex_content = join(<<"\n", "\n">>, latex_sections)
        /\ InOrderFrom(result.complete_document, 1, latex_sections)
        /\ result.pages_processed = Cardinality(CompletedSections)
        /\ result.success = FALSE
        /\ HasPrefix(result.message, <<"L", "a", "T", "e", "X", " ", "g", "e", "n", "e", "r", "a", "t", "e", "d", " ", "b", "u", "t", " ", "f", "a", "i", "l", "e", "d", " ", "t", "o", " ", "s", "a", "v", "e", ":", " ">>)
        /\ ~HasPrefix(result.message, <<"E", "r", "r", "o", "r", ":", " ">>)
        /\ result.message # NoImagesMessage

\* the POST answered 500 after two pages were generated
C5_Witness ==
    /\ pc = "done"
    /\ <<"error", "Failed to save LaTeX data", 0>> \in log
    /\ result.pages_processed = 2

\* C6: on the generation routes a run that finds no images is no error: the
\* route answers 200 with success false.
C6_NoImagesAnswers200 ==
    (pc = "done" /\ NoImagesFound) => (status_code = 200 /\ result.success = FALSE)

\* C9: with a service that returns on read what it stores, a save leaves
\* the record's vlmdesc as it was: the value written is the value read.
C9_VlmdescPreserved ==
    [][(pc = "post" /\ existing_vlmdesc = db[script_id])
         => db'[script_id] = db[script_id]]_vars

\* a failure of the run that the logger recorded
FailureOccurred ==
    \/ <<"error", "Failed to fetch images from API", 0>> \in log
    \/ \E k \in 1..MaxPages + 1 :
          \/ <<"warning", "No image_data found for page", k>> \in log
          \/ <<"error", "Error analyzing image", k>> \in log
          \/ <<"warning", "syntax warning", k>> \in log
          \/ <<"error", "Failed to process page", k>> \in log
    \/ SaveFailed

PlainSuccessMessage ==
    result.message \in {SavedMessage(script_id), GeneratedMessage(script_id)}

\* C10: no failure is dropped: a run in which a failure occurred never
\* returns an empty errors list together with a plain success message.
C10_NoFailureDropped ==
    pc = "done" => ~(FailureOccurred /\ result.errors = <<>> /\ PlainSuccessMessage)

(***************************************************************************)
(* Upstream calls that stall: the server accepts the request and never     *)
(* answers.  A requests call given timeout= raises Timeout, which is a     *)
(* RequestException, once the time is up; a requests call given no         *)
(* timeout waits without end.  The model call is made on the client of     *)
(* line 28 and ends, if at all, by raising into analyze_image_latex, which *)
(* is the "raises" reply of ModelReplies.                                  *)
(***************************************************************************)
ReadTimedOut == <<"R", "e", "a", "d", " ", "t", "i", "m", "e", "d", " ", "o", "u", "t">>

\* requests.get(url, params=..., timeout=30) stalls: Timeout is raised after
\* 30 seconds, logged and raised again into generate_latex_from_script
FetchStalls ==
    /\ pc = "fetch"
    /\ fetched' = "raised"
    /\ calls' = calls \cup {"GET script-images"}
    /\ log' = log \cup {<<"error", "Failed to fetch images from API", 0>>,
                        <<"error", "Error in generate_latex_from_script", 0>>}
    /\ Returns(OuterExcept(result, ReadTimedOut))
    /\ UNCHANGED <<script_id, save_to_django, base64_images, i, latex_sections,
                   url_index, existing_vlmdesc, save_success, db, sanVars>>

\* a call that never returns: the run stays inside it
Blocks(call) ==
    /\ calls' = calls \cup {call}
    /\ pc' = "stalled"
    /\ UNCHANGED <<script_id, save_to_django, fetched, base64_images, i,
                   latex_sections, result, url_index, existing_vlmdesc,
                   save_success, status_code, db, log, sanVars>>

\* requests.get(url) in get_existing_vlmdesc stalls: no timeout is given
TryUrlStalls ==
    /\ pc = "get_existing_vlmdesc"
    /\ Blocks("GET compare-text")

\* requests.get('http://worldtimeapi.org/...') stalls: no timeout is given
TimestampStalls ==
    /\ pc = "timestamp"
    /\ Blocks("GET worldtimeapi")

\* requests.post(url, json=payload, headers=headers) stalls: no timeout is
\* given
PostStalls ==
    /\ pc = "post"
    /\ Blocks("POST compare-text")

NextLive ==
    \/ Next
    \/ FetchStalls
    \/ TryUrlStalls
    \/ TimestampStalls
    \/ PostStalls

\* the page loop takes its next turn, whichever way the turn ends
LoopTurn ==
    /\ pc = "page"
    /\ i <= Len(base64_images)
    /\ i' = i + 1

\* every step but the turns of the page loop
StepOutsideLoop ==
    \/ generate_latex_route
    \/ generate_latex_no_save_route
    \/ FetchRaises
    \/ FetchReturns
    \/ FetchStalls
    \/ Assemble
    \/ TryUrl
    \/ TryUrlStalls
    \/ TimestampOk
    \/ TimestampRequestError
    \/ TimestampOtherError
    \/ TimestampStalls
    \/ PostOk
    \/ PostOkBadJson
    \/ PostNot200
    \/ PostRequestError
    \/ PostStalls

\* the process keeps running: a step that can be taken is taken
SpecLive ==
    Init /\ [][NextLive]_vars /\ WF_vars(StepOutsideLoop) /\ WF_i(LoopTurn)

\* C11: every upstream call carries its own timeout, so a run in which one
\* upstream call stalls forever still returns a result: every request that
\* has been started is eventually answered.
C11_RunAlwaysReturns == (pc = "fetch") ~> (pc = "done")

(***************************************************************************)
(* The text functions on their own, over Inputs.                           *)
(***************************************************************************)
InitSan ==
    /\ san_pc = "input"
    /\ san_in \in Inputs
    /\ san_out = <<>>
    /\ san_again = <<>>
    /\ pc = "off"
    /\ script_id = <<>>
    /\ save_to_django = FALSE
    /\ fetched = "pending"
    /\ base64_images = <<>>
    /\ i = 0
    /\ latex_sections = <<>>
    /\ result = InitialResult(<<>>)
    /\ url_index = 0
    /\ existing_vlmdesc = EmptyDict
    /\ save_success = FALSE
    /\ status_code = 0
    /\ db = InitialDb
    /\ calls = {}
    /\ log = {}

\* cleaned_latex = sanitize_latex(raw_latex)
Sanitize ==
    /\ san_pc = "input"
    /\ san_out' = sanitize_latex(san_in)
    /\ san_pc' = "sanitized"
    /\ UNCHANGED <<san_in, san_again, runVars>>

\* the sanitizer applied to its own output
SanitizeAgain ==
    /\ san_pc = "sanitized"
    /\ san_again' = sanitize_latex(san_out)
    /\ san_pc' = "resanitized"
    /\ UNCHANGED <<san_in, san_out, runVars>>

NextSan == Sanitize \/ SanitizeAgain

SpecSan == InitSan /\ [][NextSan]_vars

\* the text is empty or whitespace before the rules, or after them
EmptyBeforeOrAfter(text) == strip(text) = <<>> \/ SanitizeRules(text) = <<>>

\* C7: sanitize_latex(T) is never empty, and an input that is empty before
\* or after the rules yields the sentinel comment.
C7_SanitizeNeverEmpty ==
    san_pc = "sanitized" =>
        /\ san_out # <<>>
        /\ EmptyBeforeOrAfter(san_in) => san_out = EmptyContent

\* C8: sanitize_latex is idempotent: applied to its own output it returns
\* that output.
C8_SanitizeIdempotent == san_pc = "resanitized" => san_again = san_out


\* the underscore at position p of text is escaped, or starts a subscript:
\* it follows a backslash, or a digit or an opening brace follows it
EscapedOrSubscript(text, p) ==
    \/ p > 1 /\ text[p - 1] = "\\"
    \/ p < Len(text) /\ (IsDigit(text[p + 1]) \/ text[p + 1] = "{")

\* C12: sanitize_latex escapes every underscore that does not follow a
\* backslash, except exactly those immediately followed by a digit or an
\* opening brace: in its result every underscore follows a backslash or is
\* immediately followed by a digit or an opening brace, so an underscore
\* before any other character, or at the end of the text, has been escaped.
C12_UnderscoreEscaped ==
    san_pc = "sanitized" =>
        \A p \in 1..Len(san_out) :
            san_out[p] = "_" => EscapedOrSubscript(san_out, p)

=============================================================================
